---- MODULE Spec2Model ----
(***************************************************************************)
(* A model of notion_writers.NotionWriter (NotionWriter.py) and of         *)
(* notion_writers.utils.query_notion (utils.py): the writer that replaces  *)
(* the pages of a Notion database by the pages of a players ranking.       *)
(*                                                                         *)
(* Every method of the writer is one action.  A method is computed by an   *)
(* operator that threads the "world" w through the HTTP requests the       *)
(* method issues, in the order the code issues them:                       *)
(*   w.store   the un-archived pages of the database, oldest first         *)
(*   w.nextId  the identifier the store gives the next created page        *)
(*   w.log     the requests the store received during this call, with the  *)
(*             store's verdict on each                                     *)
(*   w.failAt  the position (in w.log) of the request the store rejects    *)
(*             in this call, 0 for none                                    *)
(*   w.now     the date of the call                                        *)
(***************************************************************************)
EXTENDS Integers, Sequences, FiniteSets, TLC

VARIABLES
    store,      \* the store's un-archived pages, oldest first
    nextId,     \* the id of the next page the store creates
    writers,    \* <<>> before construction, <<self>> once __init__ returned
    today,      \* the date datetime.now().date() reads
    requests,   \* the requests the last call issued, with the store's verdicts
    last        \* the last call: its name, arguments, world before, outcome

vars == <<store, nextId, writers, today, requests, last>>

------------------------------------------------------------------------------
\* Bounds of the model.
MaxPages == 3       \* pages in the database before the first call
PageSize == 2       \* pages one query of the store returns (Notion: 100)
MaxEntities == 2    \* length of a players ranking given to update_db
MaxCreated == 2     \* pages the store creates over a whole behaviour
RankSpan == 1       \* ranks run from 0 - RankSpan to 3 + RankSpan

None == "None"
ValidKey == "secret_ok"
TargetDb == "db_ranking"
ApiKeys == {ValidKey, "secret_bad"}
DbIds == {TargetDb, "db_missing"}
Dates == {<<2024, 12, 31>>, <<2025, 1, 1>>}
Names == {"Alice", "Bob"}
Ranks == (0 - RankSpan)..(3 + RankSpan)

\* The page_info dictionaries: the players of a ranking.
PageInfos == [name : Names, rank : Ranks, country : {"FRA"}]

\* The rankings given to update_db.
Players ==
    { [name |-> "Alice", rank |-> 1, country |-> "FRA"],
      [name |-> "Bob", rank |-> 2, country |-> "FRA"] }

SeqsUpTo(S, n) == UNION { [1..k -> S] : k \in 0..n }

Rankings == SeqsUpTo(Players, MaxEntities)

Min(a, b) == IF a < b THEN a ELSE b

------------------------------------------------------------------------------
\* str(date): the ISO format of a date.
IsoFormat(d) ==
    CASE d = <<2024, 12, 31>> -> "2024-12-31"
      [] d = <<2025, 1, 1>> -> "2025-01-01"

\* json.dumps: the body of a request, as JSON text of the object.
json_dumps(obj) == <<"json", obj>>

\* The store reading a JSON body.
json_loads(text) == text[2]

------------------------------------------------------------------------------
\* The Notion API (the PageStore): what it does with one request.

BaseUrl == "https://api.notion.com/v1"

\* The operation a request asks for.
Kind(req) ==
    CASE req.method = "GET" /\ Len(req.url) = 3 /\ req.url[2] = "databases" -> "verify"
      [] req.method = "POST" /\ Len(req.url) = 4 /\ req.url[2] = "databases" -> "query"
      [] req.method = "PATCH" /\ Len(req.url) = 3 /\ req.url[2] = "pages" -> "archive"
      [] req.method = "POST" /\ Len(req.url) = 2 /\ req.url[2] = "pages" -> "create"
      [] OTHER -> "unknown"

StoreIds(st) == { st[i].id : i \in 1..Len(st) }

RemovePage(st, id) == SelectSeq(st, LAMBDA p : p.id # id)

ErrorBody(msg) == [object |-> "error", message |-> msg]

\* Whether the store accepts the request, apart from the fault of this call.
Acceptable(w, req) ==
    /\ req.headers["Authorization"] = <<"Bearer", ValidKey>>
    /\ CASE Kind(req) = "verify" -> req.url[3] = TargetDb
         [] Kind(req) = "query" -> req.url[3] = TargetDb
         [] Kind(req) = "archive" -> req.url[3] \in StoreIds(w.store)
         [] Kind(req) = "create" ->
                LET obj == json_loads(req.data)
                IN  /\ "parent" \in DOMAIN obj
                    /\ obj["parent"].database_id = TargetDb
         [] OTHER -> FALSE

\* The store's answer to a request and the world after it.
Send(w, req) ==
    LET n == Len(w.log) + 1
        ok == n # w.failAt /\ Acceptable(w, req)
        obj == json_loads(req.data)
        body == IF ~ok THEN ErrorBody("rejected")
                ELSE CASE Kind(req) = "verify" ->
                            [object |-> "database", id |-> req.url[3]]
                       [] Kind(req) = "query" ->
                            [object |-> "list",
                             results |-> SubSeq(w.store, 1,
                                                Min(PageSize, Len(w.store)))]
                       [] Kind(req) = "archive" ->
                            [object |-> "page", id |-> req.url[3]]
                       [] Kind(req) = "create" ->
                            [object |-> "page", id |-> w.nextId]
        after == IF ~ok THEN w
                 ELSE CASE Kind(req) = "archive" /\ obj.archived ->
                            [w EXCEPT !.store = RemovePage(w.store, req.url[3])]
                        [] Kind(req) = "create" ->
                            [w EXCEPT !.store = Append(w.store,
                                                  [id |-> w.nextId, object |-> obj]),
                                      !.nextId = w.nextId + 1]
                        [] OTHER -> w
    IN  [w |-> [after EXCEPT
                  !.log = Append(w.log, [req |-> req, ok |-> ok, json |-> body])],
         res |-> [ok |-> ok, json |-> body]]

------------------------------------------------------------------------------
\* utils.query_notion: build the request, send it, return the response.
query_notion(endpoint, method, data, notion_api_key, w) ==
    LET headers == ("Authorization" :> <<"Bearer", notion_api_key>>)
                   @@ ("Notion-Version" :> <<"2022-06-28">>)
                   @@ ("Content-Type" :> <<"application/json">>)
    IN  Send(w, [url |-> <<BaseUrl>> \o endpoint,
                 method |-> method,
                 headers |-> headers,
                 data |-> data])

------------------------------------------------------------------------------
\* NotionWriter.  An outcome is [raised, ret, w]: whether the call raised, the
\* value it returned (None when it raised), the world after it.

\* A slip in __init__: the fields are set before the check, so the instance
\* is left holding them when the check fails.
NotionWriter_init_assign_first(notion_api_key, db_id, w) ==
    LET r == query_notion(<<"databases", db_id>>, "GET", None, notion_api_key, w)
    IN  [raised |-> ~r.res.ok,
         ret |-> IF ~r.res.ok THEN r.res.json["message"] ELSE None,
         self |-> << [notion_api_key |-> notion_api_key, db_id |-> db_id] >>,
         w |-> r.w]

\* NotionWriter.__init__: verify the key and the database id, then keep them.
\* self is <<>> when the constructor raised: no instance exists.
NotionWriter_init(notion_api_key, db_id, w) ==
    LET r == query_notion(<<"databases", db_id>>, "GET", None, notion_api_key, w)
    IN  IF ~r.res.ok
        THEN [raised |-> TRUE, ret |-> r.res.json["message"], self |-> <<>>, w |-> r.w]
        ELSE [raised |-> FALSE, ret |-> None,
              self |-> << [notion_api_key |-> notion_api_key, db_id |-> db_id] >>,
              w |-> r.w]

\* NotionWriter.get_current_pages_id: one query; json()["results"] raises
\* KeyError on a body without "results" (the error body of a rejected query).
get_current_pages_id(self, w) ==
    LET r == query_notion(<<"databases", self.db_id, "query">>, "POST", None,
                          self.notion_api_key, w)
        body == r.res.json
    IN  IF "results" \notin DOMAIN body
        THEN [raised |-> TRUE, ret |-> None, w |-> r.w]
        ELSE [raised |-> FALSE,
              ret |-> [i \in 1..Len(body["results"]) |-> body["results"][i].id],
              w |-> r.w]

\* The loop of delete_pages from position i on.
RECURSIVE delete_pages_from(_, _, _, _)
delete_pages_from(self, pages_id, i, w) ==
    IF i > Len(pages_id)
    THEN [raised |-> FALSE, ret |-> TRUE, w |-> w]
    ELSE LET response == query_notion(<<"pages", pages_id[i]>>, "PATCH",
                                      json_dumps([archived |-> TRUE]),
                                      self.notion_api_key, w)
         IN  IF ~response.res.ok
             THEN [raised |-> FALSE, ret |-> FALSE, w |-> response.w]
             ELSE delete_pages_from(self, pages_id, i + 1, response.w)

\* A slip in delete_pages: the response is never looked at.
RECURSIVE delete_pages_unchecked_from(_, _, _, _)
delete_pages_unchecked_from(self, pages_id, i, w) ==
    IF i > Len(pages_id)
    THEN [raised |-> FALSE, ret |-> TRUE, w |-> w]
    ELSE delete_pages_unchecked_from(self, pages_id, i + 1,
            query_notion(<<"pages", pages_id[i]>>, "PATCH",
                         json_dumps([archived |-> TRUE]),
                         self.notion_api_key, w).w)

delete_pages_unchecked(self, pages_id, w) ==
    delete_pages_unchecked_from(self, pages_id, 1, w)

\* A slip in delete_pages: a failure is remembered and the loop goes on.
RECURSIVE delete_pages_no_stop_from(_, _, _, _, _)
delete_pages_no_stop_from(self, pages_id, i, w, all_ok) ==
    IF i > Len(pages_id)
    THEN [raised |-> FALSE, ret |-> all_ok, w |-> w]
    ELSE LET response == query_notion(<<"pages", pages_id[i]>>, "PATCH",
                                      json_dumps([archived |-> TRUE]),
                                      self.notion_api_key, w)
         IN  delete_pages_no_stop_from(self, pages_id, i + 1, response.w,
                                       all_ok /\ response.res.ok)

delete_pages_no_stop(self, pages_id, w) ==
    delete_pages_no_stop_from(self, pages_id, 1, w, TRUE)

\* A slip in delete_pages: the ids are walked from the last to the first.
delete_pages_reversed(self, pages_id, w) ==
    delete_pages_from(self,
                      [i \in 1..Len(pages_id) |-> pages_id[Len(pages_id) + 1 - i]],
                      1, w)

\* NotionWriter.delete_pages
delete_pages(self, pages_id, w) == delete_pages_from(self, pages_id, 1, w)

\* The emoji, by code point: sports medal, second place medal, third place
\* medal, bust in silhouette.
Gold == "U+1F3C5"
Silver == "U+1F948"
Bronze == "U+1F949"
Bust == "U+1F464"

\* A slip in get_player_emoji: the first test reads <= 1.
get_player_emoji_le(player_rank) ==
    IF player_rank <= 1 THEN Gold
    ELSE IF player_rank = 2 THEN Silver
    ELSE IF player_rank = 3 THEN Bronze
    ELSE Bust

\* NotionWriter.get_player_emoji
get_player_emoji(player_rank) ==
    IF player_rank = 1 THEN Gold
    ELSE IF player_rank = 2 THEN Silver
    ELSE IF player_rank = 3 THEN Bronze
    ELSE Bust

\* A slip in build_page_object: the parent is attached whatever to_post is.
build_page_object_always_parent(self, page_info, to_post, now) ==
    ("icon" :> [emoji |-> get_player_emoji(page_info["rank"])])
    @@ ("properties" :>
          (("Player's name" :>
               [title |-> << [type |-> "text",
                              text |-> [content |-> page_info["name"]]] >>])
           @@ ("Rank" :> [number |-> page_info["rank"]])
           @@ ("Date" :> [date |-> [start |-> IsoFormat(now),
                                    end |-> None,
                                    time_zone |-> None]])))
    @@ ("parent" :> [database_id |-> self.db_id])

\* NotionWriter.build_page_object; now is the date datetime.now().date() reads.
build_page_object(self, page_info, to_post, now) ==
    LET page_object ==
            ("icon" :> [emoji |-> get_player_emoji(page_info["rank"])])
            @@ ("properties" :>
                  (("Player's name" :>
                       [title |-> << [type |-> "text",
                                      text |-> [content |-> page_info["name"]]] >>])
                   @@ ("Rank" :> [number |-> page_info["rank"]])
                   @@ ("Date" :> [date |-> [start |-> IsoFormat(now),
                                            end |-> None,
                                            time_zone |-> None]])))
    IN  IF to_post
        THEN page_object @@ ("parent" :> [database_id |-> self.db_id])
        ELSE page_object

\* A slip in the insert loop of update_db: the response of a create-page
\* request is never looked at.
RECURSIVE create_pages_unchecked_from(_, _, _, _)
create_pages_unchecked_from(self, players_ranking, i, w) ==
    IF i > Len(players_ranking)
    THEN [raised |-> FALSE, ret |-> TRUE, w |-> w]
    ELSE create_pages_unchecked_from(self, players_ranking, i + 1,
            query_notion(<<"pages">>, "POST",
                         json_dumps(build_page_object(self, players_ranking[i],
                                                      TRUE, w.now)),
                         self.notion_api_key, w).w)

\* Step 3 and 4 of update_db: one create-page request per player, in order,
\* false at the first request the store rejects.
RECURSIVE create_pages_from(_, _, _, _)
create_pages_from(self, players_ranking, i, w) ==
    IF i > Len(players_ranking)
    THEN [raised |-> FALSE, ret |-> TRUE, w |-> w]
    ELSE LET res == query_notion(<<"pages">>, "POST",
                        json_dumps(build_page_object(self, players_ranking[i],
                                                     TRUE, w.now)),
                        self.notion_api_key, w)
         IN  IF ~res.res.ok
             THEN [raised |-> FALSE, ret |-> FALSE, w |-> res.w]
             ELSE create_pages_from(self, players_ranking, i + 1, res.w)

\* update_db of the concrete writer (abstract in NotionWriter): fetch the
\* current page ids, delete them, insert one page per player.
update_db(self, players_ranking, w) ==
    LET cur == get_current_pages_id(self, w)
    IN  IF cur.raised
        THEN cur
        ELSE LET del == delete_pages(self, cur.ret, cur.w)
             IN  IF ~del.ret
                 THEN del
                 ELSE create_pages_from(self, players_ranking, 1, del.w)

------------------------------------------------------------------------------
\* The state machine.

World(failAt) ==
    [store |-> store, nextId |-> nextId, log |-> <<>>, failAt |-> failAt,
     now |-> today]

\* The pages a previous run left in the database: page i of the ranking of
\* the day before.
OldPage(i) ==
    [id |-> i,
     object |-> build_page_object([notion_api_key |-> ValidKey, db_id |-> TargetDb],
                                  [name |-> IF i % 2 = 1 THEN "Alice" ELSE "Bob",
                                   rank |-> i, country |-> "FRA"],
                                  TRUE, <<2024, 12, 31>>)]

NoCall == [op |-> "none", args |-> <<>>, raised |-> FALSE, ret |-> None,
           pre |-> <<>>, self |-> <<>>, now |-> <<2024, 12, 31>>]

Init ==
    /\ \E n \in 0..MaxPages : store = [i \in 1..n |-> OldPage(i)]
    /\ nextId = MaxPages + 1
    /\ writers = <<>>
    /\ today \in Dates
    /\ requests = <<>>
    /\ last = NoCall

Commit(op, args, out) ==
    /\ store' = out.w.store
    /\ nextId' = out.w.nextId
    /\ requests' = out.w.log
    /\ last' = [op |-> op, args |-> args, raised |-> out.raised, ret |-> out.ret,
                pre |-> store, self |-> writers, now |-> today]

\* NotionWriter(notion_api_key, db_id)
Construct(notion_api_key, db_id, failAt) ==
    /\ writers = <<>>
    /\ LET out == NotionWriter_init(notion_api_key, db_id, World(failAt))
       IN  /\ writers' = out.self
           /\ Commit("init", <<notion_api_key, db_id>>, out)
    /\ UNCHANGED today

\* writer.update_db(players_ranking)
UpdateDb(players_ranking, failAt) ==
    /\ writers # <<>>
    /\ nextId + Len(players_ranking) <= MaxPages + 1 + MaxCreated
    /\ Commit("update_db", players_ranking,
              update_db(writers[1], players_ranking, World(failAt)))
    /\ UNCHANGED <<writers, today>>

\* writer.get_current_pages_id()
GetCurrentPagesId(failAt) ==
    /\ writers # <<>>
    /\ Commit("get_current_pages_id", <<>>,
              get_current_pages_id(writers[1], World(failAt)))
    /\ UNCHANGED <<writers, today>>

\* The sequences of distinct elements of S.
DistinctSeqs(S) ==
    { s \in SeqsUpTo(S, Cardinality(S)) :
        \A i, j \in 1..Len(s) : i # j => s[i] # s[j] }

\* writer.delete_pages(pages_id)
DeletePages(pages_id, failAt) ==
    /\ writers # <<>>
    /\ Commit("delete_pages", pages_id,
              delete_pages(writers[1], pages_id, World(failAt)))
    /\ UNCHANGED <<writers, today>>

\* writer.build_page_object(page_info, to_post)
BuildPageObject(page_info, to_post) ==
    /\ writers # <<>>
    /\ Commit("build_page_object", <<page_info, to_post>>,
              [raised |-> FALSE,
               ret |-> build_page_object(writers[1], page_info, to_post, today),
               w |-> World(0)])
    /\ UNCHANGED <<writers, today>>

\* NotionWriter.get_player_emoji(player_rank)
GetPlayerEmoji(player_rank) ==
    /\ Commit("get_player_emoji", player_rank,
              [raised |-> FALSE, ret |-> get_player_emoji(player_rank),
               w |-> World(0)])
    /\ UNCHANGED <<writers, today>>

\* Midnight passes.
Tick ==
    /\ today = <<2024, 12, 31>>
    /\ today' = <<2025, 1, 1>>
    /\ UNCHANGED <<store, nextId, writers, requests, last>>

\* The requests update_db(players_ranking) issues at most on the store as it is.
MaxRequests(players_ranking) ==
    1 + Min(PageSize, Len(store)) + Len(players_ranking)

Next ==
    \/ \E k \in ApiKeys, d \in DbIds, f \in 0..1 : Construct(k, d, f)
    \/ \E f \in 0..1 : GetCurrentPagesId(f)
    \/ \E ids \in DistinctSeqs(StoreIds(store)) :
            \E f \in 0..Len(ids) : DeletePages(ids, f)
    \/ \E r \in Rankings : \E f \in 0..MaxRequests(r) : UpdateDb(r, f)
    \/ \E p \in PageInfos, b \in BOOLEAN : BuildPageObject(p, b)
    \/ \E r \in Ranks : GetPlayerEmoji(r)
    \/ Tick

Spec == Init /\ [][Next]_vars

------------------------------------------------------------------------------
\* What the claims read off the last call.

Reqs(kind) == { i \in 1..Len(requests) : Kind(requests[i].req) = kind }

Rejected == { i \in 1..Len(requests) : ~requests[i].ok }

Returned(value) == ~last.raised /\ last.ret = value

\* The rank-to-emoji table of the specification.
ExpectedEmoji(r) ==
    CASE r = 1 -> "U+1F3C5"
      [] r = 2 -> "U+1F948"
      [] r = 3 -> "U+1F949"
      [] OTHER -> "U+1F464"

\* Request i archives page id.
IsArchiveOf(i, id) ==
    /\ Kind(requests[i].req) = "archive"
    /\ requests[i].req.url[3] = id
    /\ json_loads(requests[i].req.data) = [archived |-> TRUE]

\* Request i creates the page of player e.
IsCreateOf(i, e) ==
    /\ Kind(requests[i].req) = "create"
    /\ LET obj == json_loads(requests[i].req.data)
       IN  /\ obj["properties"]["Player's name"].title[1].text.content = e.name
           /\ obj["properties"]["Rank"].number = e.rank

\* The pages of st whose id is not in ids, in the order of st.
Without(st, ids) == SelectSeq(st, LAMBDA p : p.id \notin ids)

------------------------------------------------------------------------------
\* C1: after an update_db that returned true the pages of the store are, one
\* to one and in order, the pages of the players given to that call, and no
\* page that was in the store before the call is left un-archived.
C1_SyncReplacesAll ==
    (last.op = "update_db" /\ Returned(TRUE)) =>
        /\ Len(store) = Len(last.args)
        /\ \A i \in 1..Len(store) :
              i <= Len(last.args) =>
                 store[i].object =
                    build_page_object(last.self[1], last.args[i], TRUE, last.now)
        /\ StoreIds(store) \cap StoreIds(last.pre) = {}

\* C2: when the store rejects an archive request of update_db, update_db
\* returns false and issues no create-page request.
C2_DeleteFailureAborts ==
    (last.op = "update_db" /\ Reqs("archive") \cap Rejected # {}) =>
        /\ Returned(FALSE)
        /\ Reqs("create") = {}

C2_Witness ==
    /\ last.op = "update_db"
    /\ Len(last.args) = MaxEntities
    /\ Len(requests) = 3
    /\ requests[2].ok
    /\ Kind(requests[3].req) = "archive"
    /\ ~requests[3].ok
    /\ Returned(FALSE)

\* C3: delete_pages(ids) archives the ids in order, one request per id, stops
\* at the first id the store rejects and returns false, leaving the later
\* pages un-archived; it returns true exactly when every id was accepted.
C3_DeletePagesStopsAtFirstFailure ==
    last.op = "delete_pages" =>
        LET ids == last.args
            k == Len(requests)
        IN  /\ k <= Len(ids)
            /\ \A j \in 1..k : IsArchiveOf(j, ids[j])
            /\ \A j \in 1..(k - 1) : requests[j].ok
            /\ k = Len(ids) \/ (k >= 1 /\ ~requests[k].ok)
            /\ ~last.raised
            /\ (last.ret = TRUE) <=> (k = Len(ids) /\ Rejected = {})
            /\ store = Without(last.pre,
                               { ids[j] : j \in { i \in 1..k : requests[i].ok } })

C3_Witness ==
    /\ last.op = "delete_pages"
    /\ Len(last.args) = 3
    /\ Len(requests) = 2
    /\ ~requests[2].ok
    /\ Returned(FALSE)
    /\ last.args[3] \in StoreIds(store)

\* C4: a store call that fails after construction is reported to the caller
\* as a return value of false, never as a raised exception.
C4_FailureIsFalseNotException ==
    (last.op \in {"update_db", "get_current_pages_id", "delete_pages"}
        /\ Rejected # {}) =>
        Returned(FALSE)

\* C5: update_db returns true only if every create-page request of the call
\* succeeded: one rejected create-page request makes it return false.
C5_CreateFailureIsFailure ==
    last.op = "update_db" =>
        /\ Reqs("create") \cap Rejected # {} => Returned(FALSE)
        /\ Returned(TRUE) =>
              /\ Cardinality(Reqs("create")) = Len(last.args)
              /\ Reqs("create") \cap Rejected = {}

C5_Witness ==
    /\ last.op = "update_db"
    /\ Len(last.args) = 2
    /\ Cardinality(Reqs("create")) = 2
    /\ Reqs("create") \cap Rejected = { Len(requests) }
    /\ Returned(FALSE)

\* C6: construction issues exactly one verify request; when the store rejects
\* it construction raises, nothing else is requested and no writer holding
\* the key and the database id exists; no later call verifies again.
C6_VerifyOnceAtConstruction ==
    /\ last.op = "init" =>
          /\ Len(requests) = 1
          /\ Kind(requests[1].req) = "verify"
          /\ requests[1].req.url[3] = last.args[2]
          /\ (last.args[1] # ValidKey \/ last.args[2] # TargetDb) => ~requests[1].ok
          /\ ~requests[1].ok => (last.raised /\ writers = <<>>)
          /\ requests[1].ok =>
                /\ ~last.raised
                /\ writers = << [notion_api_key |-> last.args[1],
                                 db_id |-> last.args[2]] >>
    /\ last.op \notin {"init", "none"} => Reqs("verify") = {}

C6_Witness ==
    /\ last.op = "init"
    /\ last.args = <<ValidKey, "db_missing">>
    /\ last.raised
    /\ Len(requests) = 1
    /\ writers = <<>>

\* C7: update_db([]) archives every page of the store, creates none, leaves
\* the store empty and returns true; on the store it left, a second
\* update_db([]) archives nothing, creates nothing and returns true.
C7_EmptyRankingEmptiesStore ==
    (last.op = "update_db" /\ last.args = <<>> /\ Rejected = {}) =>
        /\ Returned(TRUE)
        /\ Reqs("create") = {}
        /\ store = <<>>
        /\ last.pre = <<>> => Reqs("archive") = {}

\* C8: build_page_object(page_info, True) holds parent.database_id, the
\* database id of the writer; build_page_object(page_info, False) holds no
\* parent; the icon, the title, the rank and the date are the same in both;
\* the call requests nothing of the store and leaves the writer as it was.
C8_BuildPageObject ==
    last.op = "build_page_object" =>
        LET page_info == last.args[1]
            to_post == last.args[2]
            obj == last.ret
        IN  /\ ~last.raised
            /\ to_post => /\ DOMAIN obj = {"icon", "properties", "parent"}
                          /\ obj["parent"] = [database_id |-> last.self[1].db_id]
            /\ ~to_post => DOMAIN obj = {"icon", "properties"}
            /\ obj["icon"] = [emoji |-> ExpectedEmoji(page_info.rank)]
            /\ DOMAIN obj["properties"] = {"Player's name", "Rank", "Date"}
            /\ obj["properties"]["Player's name"] =
                  [title |-> << [type |-> "text",
                                 text |-> [content |-> page_info.name]] >>]
            /\ obj["properties"]["Rank"] = [number |-> page_info.rank]
            /\ obj["properties"]["Date"] =
                  [date |-> [start |-> IsoFormat(last.now), end |-> None,
                             time_zone |-> None]]
            /\ requests = <<>>
            /\ store = last.pre
            /\ writers = last.self

C8_Witness ==
    /\ last.op = "build_page_object"
    /\ ~last.args[2]
    /\ last.args[1].rank = 2
    /\ "parent" \notin DOMAIN last.ret

\* C9: get_player_emoji(r) is the gold medal for 1, the silver medal for 2,
\* the bronze medal for 3 and the silhouette for every other rank, 0 and the
\* negative ranks included; the icon of a built page is that emoji.
C9_EmojiForRank ==
    /\ last.op = "get_player_emoji" => Returned(ExpectedEmoji(last.args))
    /\ last.op = "build_page_object" =>
          last.ret["icon"].emoji = ExpectedEmoji(last.args[1].rank)

C9_Witness ==
    /\ last.op = "get_player_emoji"
    /\ last.args < 0
    /\ Returned("U+1F464")

\* C10: the requests of one update_db are the query, then the archive
\* requests in the order of the ids the query returned, then the create-page
\* requests in the order of the players; each is answered before the next is
\* sent, nothing follows a rejected request and nothing is sent twice.
C10_RequestOrder ==
    last.op = "update_db" =>
        /\ Len(requests) >= 1
        /\ Kind(requests[1].req) = "query"
        /\ ~requests[1].ok => Len(requests) = 1
        /\ requests[1].ok =>
              LET results == requests[1].json["results"]
                  m == Len(results)
                  n == Len(last.args)
                  k == Len(requests)
              IN  /\ k <= 1 + m + n
                  /\ \A j \in 2..k :
                        IF j <= 1 + m
                        THEN IsArchiveOf(j, results[j - 1].id)
                        ELSE IsCreateOf(j, last.args[j - 1 - m])
                  /\ \A j \in 1..(k - 1) : requests[j].ok
                  /\ k < 1 + m + n => ~requests[k].ok

C10_Witness ==
    /\ last.op = "update_db"
    /\ Returned(TRUE)
    /\ Len(requests) = 5
    /\ Cardinality(Reqs("archive")) = 2
    /\ Cardinality(Reqs("create")) = 2
    /\ last.args[1] # last.args[2]

====
